---- MODULE Spec2Model ----
(***************************************************************************)
(* A model of lib/vmnet_stubs.c, the C stubs that bind vmnet.framework to  *)
(* the OCaml runtime.                                                      *)
(*                                                                         *)
(* Five specifications share the module:                                   *)
(*   Spec     the packets-available event machinery of one handle:         *)
(*            caml_set_event_handler, the event callback block and         *)
(*            caml_wait_for_event, run by OCaml threads that share the     *)
(*            runtime lock.  Init is the handle alloc_vmnet_state returns. *)
(*   FairSpec Spec under fair scheduling of the waiter, of a started       *)
(*            callback and of the thread that holds the runtime lock.      *)
(*   SpecApi  the stubs that run from entry to return under the runtime    *)
(*            lock: caml_init_vmnet with its creation block,               *)
(*            caml_vmnet_interface_add_port_forwarding_rule with its       *)
(*            completion block, caml_vmnet_read, caml_vmnet_write and      *)
(*            caml_shared_interface_list, from a program with no handle.   *)
(*   SpecMulti the event machinery of Spec with every thread a caller of   *)
(*            caml_wait_for_event on the handle.                           *)
(*   SpecFrame the event machinery of Spec together with caml_vmnet_read,  *)
(*            caml_vmnet_write and the port forwarding call on the handle. *)
(***************************************************************************)
EXTENDS Integers, Sequences, FiniteSets, TLC

(***************************************************************************)
(* Bounds of the model.                                                    *)
(***************************************************************************)
\* Width in bits of the C int that holds last_event and seen_event, scaled
\* down from 32 so that a wrap of the counter is reachable.
IntBits == 2
\* OCaml threads of the program.
NThreads == 2
\* How many times caml_set_event_handler is called on the handle; each call
\* creates a dispatch queue of its own for the callback block.
MaxInstalls == 2
\* Handles one run of the program creates with caml_init_vmnet.
MaxHandles == 2
\* The largest bigarray passed to caml_vmnet_read and caml_vmnet_write.
MaxBuf == 2
\* The longest list vmnet_copy_shared_interface_list gives.
MaxIfaces == 2

Threads == 1 .. NThreads
Queues == 1 .. MaxInstalls

\* Ghost counters saturate here, one past a full wrap of the int.
PendingCap == 2 ^ IntBits + 1

(***************************************************************************)
(* C int arithmetic at the model's width (two's complement).               *)
(***************************************************************************)
IntMin == 0 - 2 ^ (IntBits - 1)
IntMax == 2 ^ (IntBits - 1) - 1
IntVals == IntMin .. IntMax

\* Mutant of IntInc: the counter advances by two.
IntIncTwo(x) == IF x >= IntMax - 1 THEN IntMin ELSE x + 2

\* x++ on an int.  Overflow of a signed int is undefined in C; the builds of
\* this file (no -ftrapv) compile the increment of a field in memory to an
\* add that wraps.
IntInc(x) == IF x = IntMax THEN IntMin ELSE x + 1

\* A saturating ghost increment.
Sat(n) == IF n < PendingCap THEN n + 1 ELSE n

(***************************************************************************)
(* Host interface references (interface_ref): opaque, non-NULL pointers.   *)
(***************************************************************************)
NULL == "NULL"
IfaceRefs == {"ifA", "ifB"}

(***************************************************************************)
(* struct vmnet_state.  vmm is the owner of the mutex, vmc the set of      *)
(* threads blocked in pthread_cond_wait on the condition variable.         *)
(***************************************************************************)
NoOwner == <<"none", 0>>
ThreadOwner(t) == <<"thread", t>>
BlockOwner(q) == <<"block", q>>

alloc_vmnet_state(i) ==
    [iref |-> i, vmm |-> NoOwner, vmc |-> {}, seen_event |-> 0, last_event |-> 0]

VARIABLES
    handles,       \* the vmnet_state structs allocated so far, in order
    pc,            \* pc[t]: where OCaml thread t is
    runtime,       \* the thread that holds the OCaml runtime lock, or 0
    installs,      \* calls of caml_set_event_handler so far: the current queue
    cbpc,          \* cbpc[q]: where the callback block of queue q is
    incSinceSeen,  \* ghost: executions of last_event++ since seen_event was last set
    consumed,      \* ghost: consumed[t]: the events thread t's wait took at line 205
    fresh,         \* ghost: a callback step has run since the last return of a wait
    spurious,      \* ghost: spurious[t]: thread t's wait had a spurious wakeup
    api1015,       \* the build has __MAC_OS_X_VERSION_MAX_ALLOWED >= 101500
    init,          \* the __block variables and the semaphore of caml_init_vmnet
    initcb,        \* the creation block of caml_init_vmnet: position and arguments
    pf,            \* the locals of caml_vmnet_interface_add_port_forwarding_rule
    pfcb,          \* its completion block: position and argument
    ret,           \* what the last stub that finished gave back to OCaml
    exited         \* errx has ended the process

eventvars == <<installs, cbpc, incSinceSeen, consumed, fresh, spurious>>

pfvars == <<pf, pfcb>>

apivars == <<api1015, init, initcb, pfvars, ret, exited>>

vars == <<handles, pc, runtime, eventvars, apivars>>

ghosts == <<incSinceSeen, consumed, fresh, spurious>>

\* The handle the event machinery runs on.
vms == handles[1]

(***************************************************************************)
(* The OCaml runtime lock.  A thread runs OCaml code and C stubs only while*)
(* it holds the lock; the runtime makes the holder yield to the others.    *)
(***************************************************************************)
caml_release_runtime_system(t) ==
    /\ runtime = t
    /\ runtime' = 0

caml_acquire_runtime_system(t) ==
    /\ runtime = 0
    /\ runtime' = t

\* A thread in OCaml code gives the lock up (a yield or a blocking section).
\* Nothing runs once errx has ended the process.
thread_yield(t) ==
    /\ ~exited
    /\ pc[t] = "ocaml"
    /\ caml_release_runtime_system(t)
    /\ UNCHANGED <<handles, pc, installs, cbpc, ghosts>>
    /\ UNCHANGED apivars

\* A thread in OCaml code that waits for the lock gets it.
thread_resume(t) ==
    /\ ~exited
    /\ pc[t] = "ocaml"
    /\ caml_acquire_runtime_system(t)
    /\ UNCHANGED <<handles, pc, installs, cbpc, ghosts>>
    /\ UNCHANGED apivars

(***************************************************************************)
(* pthread mutex and condition variable of the handle.                     *)
(***************************************************************************)
pthread_mutex_lock(o) ==
    /\ vms.vmm = NoOwner
    /\ handles' = [handles EXCEPT ![1].vmm = o]

pthread_mutex_unlock(o) ==
    /\ vms.vmm = o
    /\ handles' = [handles EXCEPT ![1].vmm = NoOwner]

(***************************************************************************)
(* caml_set_event_handler: creates a serial queue and installs the block   *)
(* as the interface's packets-available callback, replacing the previous   *)
(* one.  Runs under the runtime lock.                                      *)
(***************************************************************************)
caml_set_event_handler(t) ==
    /\ pc[t] = "ocaml"
    /\ runtime = t
    /\ installs < MaxInstalls
    /\ installs' = installs + 1
    /\ UNCHANGED <<handles, pc, runtime, cbpc, ghosts>>
    /\ UNCHANGED apivars

(***************************************************************************)
(* The callback block of caml_set_event_handler (lines 186-192), run by    *)
(* the host on queue q.  The queue is serial: one run of the block at a    *)
(* time; the host delivers events only to the currently installed block.   *)
(***************************************************************************)
event_callback_fire(q) ==
    /\ q = installs
    /\ cbpc[q] = "idle"
    /\ cbpc' = [cbpc EXCEPT ![q] = "lock"]
    /\ fresh' = TRUE
    /\ UNCHANGED <<handles, pc, runtime, installs, incSinceSeen, consumed, spurious>>
    /\ UNCHANGED apivars

\* Mutant of event_callback_lock: the block goes on to last_event++ without
\* taking the mutex.
event_callback_no_lock(q) ==
    /\ cbpc[q] = "lock"
    /\ cbpc' = [cbpc EXCEPT ![q] = "inc"]
    /\ fresh' = TRUE
    /\ UNCHANGED <<handles, pc, runtime, installs, incSinceSeen, consumed, spurious>>
    /\ UNCHANGED apivars

\* pthread_mutex_lock(&vms->vmm) (line 188).
event_callback_lock(q) ==
    /\ cbpc[q] = "lock"
    /\ pthread_mutex_lock(BlockOwner(q))
    /\ cbpc' = [cbpc EXCEPT ![q] = "inc"]
    /\ fresh' = TRUE
    /\ UNCHANGED <<pc, runtime, installs, incSinceSeen, consumed, spurious>>
    /\ UNCHANGED apivars

event_callback_inc(q) ==
    /\ cbpc[q] = "inc"
    /\ handles' = [handles EXCEPT ![1].last_event = IntInc(vms.last_event)]
    /\ cbpc' = [cbpc EXCEPT ![q] = "broadcast"]
    /\ incSinceSeen' = Sat(incSinceSeen)
    /\ fresh' = TRUE
    /\ UNCHANGED <<pc, runtime, installs, consumed, spurious>>
    /\ UNCHANGED apivars

\* pthread_cond_broadcast: every thread blocked on vmc is woken; each has to
\* take the mutex again before its pthread_cond_wait returns.
event_callback_broadcast(q) ==
    /\ cbpc[q] = "broadcast"
    /\ handles' = [handles EXCEPT ![1].vmc = {}]
    /\ pc' = [t \in Threads |-> IF t \in vms.vmc THEN "w_reacquire" ELSE pc[t]]
    /\ cbpc' = [cbpc EXCEPT ![q] = "unlock"]
    /\ fresh' = TRUE
    /\ UNCHANGED <<runtime, installs, incSinceSeen, consumed, spurious>>
    /\ UNCHANGED apivars

event_callback_unlock(q) ==
    /\ cbpc[q] = "unlock"
    /\ pthread_mutex_unlock(BlockOwner(q))
    /\ cbpc' = [cbpc EXCEPT ![q] = "idle"]
    /\ fresh' = TRUE
    /\ UNCHANGED <<pc, runtime, installs, incSinceSeen, consumed, spurious>>
    /\ UNCHANGED apivars

(***************************************************************************)
(* caml_wait_for_event (lines 196-209), one action per statement.          *)
(***************************************************************************)
\* Mutant of wait_call: the call goes on to the mutex with the runtime lock
\* still held.
wait_call_keep_runtime(t) ==
    /\ pc[t] = "ocaml"
    /\ runtime = t
    /\ pc' = [pc EXCEPT ![t] = "w_lock"]
    /\ consumed' = [consumed EXCEPT ![t] = 0]
    /\ spurious' = [spurious EXCEPT ![t] = FALSE]
    /\ UNCHANGED <<handles, runtime, installs, cbpc, incSinceSeen, fresh>>
    /\ UNCHANGED apivars

\* The call, up to and including caml_release_runtime_system (line 201).
wait_call(t) ==
    /\ pc[t] = "ocaml"
    /\ caml_release_runtime_system(t)
    /\ pc' = [pc EXCEPT ![t] = "w_lock"]
    /\ consumed' = [consumed EXCEPT ![t] = 0]
    /\ spurious' = [spurious EXCEPT ![t] = FALSE]
    /\ UNCHANGED <<handles, installs, cbpc, incSinceSeen, fresh>>
    /\ UNCHANGED apivars

\* pthread_mutex_lock (line 202).
wait_lock(t) ==
    /\ pc[t] = "w_lock"
    /\ pthread_mutex_lock(ThreadOwner(t))
    /\ pc' = [pc EXCEPT ![t] = "w_check"]
    /\ UNCHANGED <<runtime, installs, cbpc, ghosts>>
    /\ UNCHANGED apivars

\* The loop condition (line 203), read under the mutex.  When the counters
\* are equal pthread_cond_wait (line 204) releases the mutex and blocks.
wait_check(t) ==
    /\ pc[t] = "w_check"
    /\ vms.vmm = ThreadOwner(t)
    /\ IF vms.seen_event = vms.last_event
         THEN /\ handles' = [handles EXCEPT ![1].vmm = NoOwner,
                                            ![1].vmc = vms.vmc \cup {t}]
              /\ pc' = [pc EXCEPT ![t] = "w_wait"]
         ELSE /\ pc' = [pc EXCEPT ![t] = "w_set"]
              /\ UNCHANGED handles
    /\ UNCHANGED <<runtime, installs, cbpc, ghosts>>
    /\ UNCHANGED apivars

\* A spurious wakeup of pthread_cond_wait, which POSIX allows.
wait_spurious(t) ==
    /\ pc[t] = "w_wait"
    /\ t \in vms.vmc
    /\ handles' = [handles EXCEPT ![1].vmc = vms.vmc \ {t}]
    /\ pc' = [pc EXCEPT ![t] = "w_reacquire"]
    /\ spurious' = [spurious EXCEPT ![t] = TRUE]
    /\ UNCHANGED <<runtime, installs, cbpc, incSinceSeen, consumed, fresh>>
    /\ UNCHANGED apivars

\* Mutant of wait_reacquire: an if where the code has a while, so that a
\* woken thread does not test the counters again.
wait_reacquire_no_retest(t) ==
    /\ pc[t] = "w_reacquire"
    /\ pthread_mutex_lock(ThreadOwner(t))
    /\ pc' = [pc EXCEPT ![t] = "w_set"]
    /\ UNCHANGED <<runtime, installs, cbpc, ghosts>>
    /\ UNCHANGED apivars

\* pthread_cond_wait returns with the mutex held; the loop tests again.
wait_reacquire(t) ==
    /\ pc[t] = "w_reacquire"
    /\ pthread_mutex_lock(ThreadOwner(t))
    /\ pc' = [pc EXCEPT ![t] = "w_check"]
    /\ UNCHANGED <<runtime, installs, cbpc, ghosts>>
    /\ UNCHANGED apivars

\* Mutant of wait_set: seen_event++ where the code assigns last_event, so
\* that a return takes one event only.
wait_set_one_event(t) ==
    /\ pc[t] = "w_set"
    /\ vms.vmm = ThreadOwner(t)
    /\ handles' = [handles EXCEPT ![1].seen_event = IntInc(vms.seen_event)]
    /\ pc' = [pc EXCEPT ![t] = "w_unlock"]
    /\ consumed' = [consumed EXCEPT ![t] = incSinceSeen]
    /\ incSinceSeen' = 0
    /\ UNCHANGED <<runtime, installs, cbpc, fresh, spurious>>
    /\ UNCHANGED apivars

\* vms->seen_event = vms->last_event (line 205).
wait_set(t) ==
    /\ pc[t] = "w_set"
    /\ vms.vmm = ThreadOwner(t)
    /\ handles' = [handles EXCEPT ![1].seen_event = vms.last_event]
    /\ pc' = [pc EXCEPT ![t] = "w_unlock"]
    /\ consumed' = [consumed EXCEPT ![t] = incSinceSeen]
    /\ incSinceSeen' = 0
    /\ UNCHANGED <<runtime, installs, cbpc, fresh, spurious>>
    /\ UNCHANGED apivars

\* pthread_mutex_unlock (line 206).
wait_unlock(t) ==
    /\ pc[t] = "w_unlock"
    /\ pthread_mutex_unlock(ThreadOwner(t))
    /\ pc' = [pc EXCEPT ![t] = "w_acquire"]
    /\ UNCHANGED <<runtime, installs, cbpc, ghosts>>
    /\ UNCHANGED apivars

\* caml_acquire_runtime_system and the return (lines 207-208).
wait_return(t) ==
    /\ pc[t] = "w_acquire"
    /\ caml_acquire_runtime_system(t)
    /\ pc' = [pc EXCEPT ![t] = "ocaml"]
    /\ fresh' = FALSE
    /\ UNCHANGED <<handles, installs, cbpc, incSinceSeen, consumed, spurious>>
    /\ UNCHANGED apivars

caml_wait_for_event(t) ==
    \/ wait_call(t)
    \/ wait_lock(t)
    \/ wait_check(t)
    \/ wait_spurious(t)
    \/ wait_reacquire(t)
    \/ wait_set(t)
    \/ wait_unlock(t)
    \/ wait_return(t)

event_callback(q) ==
    \/ event_callback_fire(q)
    \/ event_callback_lock(q)
    \/ event_callback_inc(q)
    \/ event_callback_broadcast(q)
    \/ event_callback_unlock(q)

(***************************************************************************)
(* OCaml values.  An int is tagged: Val_int(n) is 2n+1 and Int_val undoes  *)
(* it; unit is Val_int(0).                                                 *)
(***************************************************************************)
Val_int(n) == 2 * n + 1
Int_val(v) == (v - 1) \div 2
Val_unit == Val_int(0)

(***************************************************************************)
(* vmnet_return_t (vmnet/vmnet.h) and what the host passes to the blocks.  *)
(***************************************************************************)
VMNET_SUCCESS == 1000
VMNET_FAILURE == 1001
VMNET_INVALID_ARGUMENT == 1003
VmnetReturns == {VMNET_SUCCESS, VMNET_FAILURE, VMNET_INVALID_ARGUMENT}

\* A MAC address string as the host gives it: the fields between the colons,
\* each a sequence of characters, a hexadecimal digit by its value and any
\* other character as -1.
MacStrings ==
    { <<<<0, 10>>, <<0, 0>>, <<2, 7>>, <<0, 0>>, <<0, 0>>, <<0, 1>>>>,   \* 0a:00:27:00:00:01
      <<<<15, 14>>, <<1>>, <<0, 0>>, <<0, 0>>, <<0, 0>>, <<15, 15>>>>,   \* fe:1:00:00:00:ff
      <<<<0, 10>>, <<0, 0>>, <<2, 7>>>>,                                 \* 0a:00:27
      <<<<0, 10>>, <<0, 0>>, <<-1, 7>>, <<0, 0>>, <<0, 0>>, <<0, 1>>>> } \* 0a:00:z7:00:00:01

\* The interface_param dictionaries the host may pass, and a NULL one.
InterfaceParams ==
    [null : {FALSE}, mac : MacStrings, mtu : {1500}, max_packet_size : {1514, 1518}]

NullParam == [null |-> TRUE, mac |-> <<>>, mtu |-> 0, max_packet_size |-> 0]

\* What malloc(6) may hold before anything is stored in it.
UninitMacs == { <<0, 0, 0, 0, 0, 0>>, <<165, 165, 165, 165, 165, 165>> }

\* %hhx on one field: the hexadecimal number, stored in an unsigned char.
RECURSIVE hhx(_, _)
hhx(field, acc) ==
    IF field = <<>> THEN acc
    ELSE hhx(Tail(field), (16 * acc + Head(field)) % 256)

IsHex(field) == field # <<>> /\ \A k \in 1 .. Len(field) : field[k] >= 0

\* sscanf(macStr, "%hhx:%hhx:%hhx:%hhx:%hhx:%hhx", ...): the conversions
\* made before the first field that is missing or is no number, and the
\* bytes they stored (lmac is on the stack: the rest is whatever was there).
RECURSIVE sscanf_mac(_, _, _)
sscanf_mac(str, k, lmac) ==
    IF k > 6 \/ k > Len(str) \/ ~IsHex(str[k])
      THEN [n |-> k - 1, lmac |-> lmac]
      ELSE sscanf_mac(str, k + 1, [lmac EXCEPT ![k] = hhx(str[k], 0)])

\* The OCaml side registers both exceptions when the library is loaded,
\* before any stub can run.
NamedValues == {"vmnet_raw_return", "vmnet_api_not_supported"}

caml_named_value(name) == IF name \in NamedValues THEN name ELSE NULL

\* The lookup and raise of lines 131-134.
raise_raw_return(status) ==
    IF caml_named_value("vmnet_raw_return") = NULL
      THEN [kind |-> "exn", exn |-> "Failure",
            arg |-> "Vmnet.Error exception not registered"]
      ELSE [kind |-> "exn", exn |-> caml_named_value("vmnet_raw_return"),
            arg |-> Val_int(status)]

\* caml_raise_api_not_supported (lines 61-67).
caml_raise_api_not_supported ==
    IF caml_named_value("vmnet_api_not_supported") = NULL
      THEN [kind |-> "exn", exn |-> "Failure",
            arg |-> "Vmnet.Error exception not registered"]
      ELSE [kind |-> "exn", exn |-> caml_named_value("vmnet_api_not_supported"),
            arg |-> Val_unit]

NoRet == [op |-> "none"]

\* The stubs below run from entry to return under the runtime lock; the
\* OCaml caller has taken the result of the stub before.
InOCaml(t) == ~exited /\ pc[t] = "ocaml" /\ runtime = t /\ ret = NoRet

\* The OCaml caller takes the value, or handles the exception, of the stub
\* that has finished.
ocaml_take_result(t) ==
    /\ ~exited
    /\ pc[t] = "ocaml"
    /\ runtime = t
    /\ ret # NoRet
    /\ ret' = NoRet
    /\ UNCHANGED <<handles, pc, runtime, api1015, init, initcb, pfvars, exited, eventvars>>

(***************************************************************************)
(* caml_init_vmnet (lines 85-145).                                         *)
(***************************************************************************)
NoInit ==
    [iface |-> NULL, iface_status |-> 0, mac |-> <<0, 0, 0, 0, 0, 0>>, mtu |-> 0,
     max_packet_size |-> 0, iface_created |-> 0, signals |-> 0]

NoBlock == [pc |-> "none", status |-> 0, param |-> NullParam, path |-> "none"]

\* Entry: the __block variables and the semaphore (lines 103-110).  signals
\* is a ghost: the dispatch_semaphore_signal calls made on iface_created.
init_call(t) ==
    /\ InOCaml(t)
    /\ Len(handles) < MaxHandles
    /\ \E m \in UninitMacs :
          init' = [iface |-> NULL, iface_status |-> 0, mac |-> m, mtu |-> 0,
                   max_packet_size |-> 0, iface_created |-> 0, signals |-> 0]
    /\ initcb' = NoBlock
    /\ pc' = [pc EXCEPT ![t] = "i_start"]
    /\ UNCHANGED <<handles, runtime, api1015, ret, exited, eventvars>>
    /\ UNCHANGED pfvars

\* vmnet_start_interface (line 111): the host gives back an interface
\* reference or NULL and queues the block, with the status and the
\* parameters it will pass, on if_create_q.
init_start(t) ==
    /\ ~exited
    /\ pc[t] = "i_start"
    /\ \E r \in IfaceRefs \cup {NULL}, st \in VmnetReturns,
          prm \in InterfaceParams \cup {NullParam} :
          /\ init' = [init EXCEPT !.iface = r]
          /\ initcb' = [pc |-> "queued", status |-> st, param |-> prm, path |-> "none"]
    /\ pc' = [pc EXCEPT ![t] = "i_wait"]
    /\ UNCHANGED <<handles, runtime, api1015, ret, exited, eventvars>>
    /\ UNCHANGED pfvars

\* The block: iface_status = status and the test of line 114.
init_block_status ==
    /\ ~exited
    /\ initcb.pc = "queued"
    /\ init' = [init EXCEPT !.iface_status = initcb.status]
    /\ initcb' = [initcb EXCEPT !.pc =
                     IF initcb.status # VMNET_SUCCESS \/ initcb.param.null
                       THEN "signal_fail" ELSE "sscanf"]
    /\ UNCHANGED <<handles, pc, runtime, api1015, ret, exited, eventvars>>
    /\ UNCHANGED pfvars

\* The block: dispatch_semaphore_signal and return of the failure path
\* (lines 115-116).
init_block_signal_fail ==
    /\ ~exited
    /\ initcb.pc = "signal_fail"
    /\ init' = [init EXCEPT !.iface_created = @ + 1, !.signals = @ + 1]
    /\ initcb' = [initcb EXCEPT !.pc = "done", !.path = "fail"]
    /\ UNCHANGED <<handles, pc, runtime, api1015, ret, exited, eventvars>>
    /\ UNCHANGED pfvars

\* The block: sscanf of the MAC address, errx when it is malformed, memcpy
\* into mac otherwise (lines 119-123).
init_block_sscanf ==
    /\ ~exited
    /\ initcb.pc = "sscanf"
    /\ \E junk \in UninitMacs :
          LET r == sscanf_mac(initcb.param.mac, 1, junk)
          IN  IF r.n # 6
                THEN /\ exited' = TRUE
                     /\ initcb' = [initcb EXCEPT !.pc = "errx"]
                     /\ UNCHANGED init
                ELSE /\ init' = [init EXCEPT !.mac = r.lmac]
                     /\ initcb' = [initcb EXCEPT !.pc = "mtu"]
                     /\ UNCHANGED exited
    /\ UNCHANGED <<handles, pc, runtime, api1015, ret, eventvars>>
    /\ UNCHANGED pfvars

\* The block: mtu (line 124).
init_block_mtu ==
    /\ ~exited
    /\ initcb.pc = "mtu"
    /\ init' = [init EXCEPT !.mtu = initcb.param.mtu]
    /\ initcb' = [initcb EXCEPT !.pc = "max_packet_size"]
    /\ UNCHANGED <<handles, pc, runtime, api1015, ret, exited, eventvars>>
    /\ UNCHANGED pfvars

\* The block: max_packet_size (line 125).
init_block_max_packet_size ==
    /\ ~exited
    /\ initcb.pc = "max_packet_size"
    /\ init' = [init EXCEPT !.max_packet_size = initcb.param.max_packet_size]
    /\ initcb' = [initcb EXCEPT !.pc = "signal_ok"]
    /\ UNCHANGED <<handles, pc, runtime, api1015, ret, exited, eventvars>>
    /\ UNCHANGED pfvars

\* The block: dispatch_semaphore_signal of the success path (line 126).
init_block_signal_ok ==
    /\ ~exited
    /\ initcb.pc = "signal_ok"
    /\ init' = [init EXCEPT !.iface_created = @ + 1, !.signals = @ + 1]
    /\ initcb' = [initcb EXCEPT !.pc = "done", !.path = "ok"]
    /\ UNCHANGED <<handles, pc, runtime, api1015, ret, exited, eventvars>>
    /\ UNCHANGED pfvars

\* Mutant of init_wait: the semaphore is not waited for.
init_wait_no_block(t) ==
    /\ ~exited
    /\ pc[t] = "i_wait"
    /\ pc' = [pc EXCEPT ![t] = "i_check"]
    /\ UNCHANGED <<handles, runtime, init, initcb, api1015, ret, exited, eventvars>>
    /\ UNCHANGED pfvars

\* dispatch_semaphore_wait(iface_created, DISPATCH_TIME_FOREVER) (line 128).
init_wait(t) ==
    /\ ~exited
    /\ pc[t] = "i_wait"
    /\ init.iface_created > 0
    /\ init' = [init EXCEPT !.iface_created = @ - 1]
    /\ pc' = [pc EXCEPT ![t] = "i_check"]
    /\ UNCHANGED <<handles, runtime, initcb, api1015, ret, exited, eventvars>>
    /\ UNCHANGED pfvars

\* What the thread reads after the wait, for the record of the call.
init_read ==
    [op |-> "init", iface |-> init.iface, status |-> init.iface_status,
     blockpc |-> initcb.pc, blockstatus |-> initcb.status,
     blockparam |-> initcb.param]

\* The tuple of lines 136-144; the handle is the new last entry of handles.
init_tuple ==
    [kind |-> "tuple",
     value |-> <<Len(handles) + 1, init.mac, Val_int(init.mtu),
                 Val_int(init.max_packet_size)>>]

\* Mutant of init_finish: && where the code has || in the test of line 130.
init_finish_and(t) ==
    /\ ~exited
    /\ pc[t] = "i_check"
    /\ IF init.iface = NULL /\ init.iface_status # VMNET_SUCCESS
         THEN /\ ret' = [f \in DOMAIN init_read \cup {"kind", "exn", "arg", "allocated"} |->
                           IF f \in DOMAIN init_read THEN init_read[f]
                           ELSE IF f = "allocated" THEN 0
                           ELSE raise_raw_return(init.iface_status)[f]]
              /\ UNCHANGED handles
         ELSE /\ handles' = Append(handles, alloc_vmnet_state(init.iface))
              /\ ret' = [f \in DOMAIN init_read \cup {"kind", "value", "allocated"} |->
                           IF f \in DOMAIN init_read THEN init_read[f]
                           ELSE IF f = "allocated" THEN 1
                           ELSE init_tuple[f]]
    /\ init' = NoInit
    /\ initcb' = NoBlock
    /\ pc' = [pc EXCEPT ![t] = "ocaml"]
    /\ UNCHANGED <<runtime, api1015, exited, eventvars>>
    /\ UNCHANGED pfvars

\* The test of line 130: the exception, or alloc_vmnet_state and the tuple.
\* allocated is a ghost: the handles this call allocated.  The locals of
\* the call end with it.
init_finish(t) ==
    /\ ~exited
    /\ pc[t] = "i_check"
    /\ IF init.iface = NULL \/ init.iface_status # VMNET_SUCCESS
         THEN /\ ret' = [f \in DOMAIN init_read \cup {"kind", "exn", "arg", "allocated"} |->
                           IF f \in DOMAIN init_read THEN init_read[f]
                           ELSE IF f = "allocated" THEN 0
                           ELSE raise_raw_return(init.iface_status)[f]]
              /\ UNCHANGED handles
         ELSE /\ handles' = Append(handles, alloc_vmnet_state(init.iface))
              /\ ret' = [f \in DOMAIN init_read \cup {"kind", "value", "allocated"} |->
                           IF f \in DOMAIN init_read THEN init_read[f]
                           ELSE IF f = "allocated" THEN 1
                           ELSE init_tuple[f]]
    /\ init' = NoInit
    /\ initcb' = NoBlock
    /\ pc' = [pc EXCEPT ![t] = "ocaml"]
    /\ UNCHANGED <<runtime, api1015, exited, eventvars>>
    /\ UNCHANGED pfvars

caml_init_vmnet(t) ==
    \/ init_call(t)
    \/ init_start(t)
    \/ init_wait(t)
    \/ init_finish(t)

init_block ==
    \/ init_block_status
    \/ init_block_signal_fail
    \/ init_block_sscanf
    \/ init_block_mtu
    \/ init_block_max_packet_size
    \/ init_block_signal_ok

(***************************************************************************)
(* caml_vmnet_interface_add_port_forwarding_rule (lines 257-296).          *)
(***************************************************************************)
NoPf == [vmnet_status |-> 0, rule_added |-> 0, res |-> 0, waited |-> FALSE]

NoPfBlock == [pc |-> "none", status |-> 0]

\* A build for an SDK before 10.15: the #else branch (lines 293-294).
pf_call_unsupported(t) ==
    /\ InOCaml(t)
    /\ ~api1015
    /\ handles # <<>>
    /\ ret' = [f \in {"op", "kind", "exn", "arg"} |->
                 IF f = "op" THEN "pf" ELSE caml_raise_api_not_supported[f]]
    /\ UNCHANGED <<handles, pc, runtime, api1015, init, initcb, pfvars, exited, eventvars>>

\* Entry on a handle: vmnet_status and the semaphore (lines 263-273).
\* waited is a ghost: the call has waited on rule_added.
pf_call(t) ==
    /\ InOCaml(t)
    /\ api1015
    /\ handles # <<>>
    /\ pf' = NoPf
    /\ pfcb' = NoPfBlock
    /\ pc' = [pc EXCEPT ![t] = "pf_queue"]
    /\ UNCHANGED <<handles, runtime, api1015, init, initcb, ret, exited, eventvars>>

\* vmnet_interface_add_port_forwarding_rule (line 275): the host gives back
\* whether the command is queued.  It runs the completion block of a queued
\* command; whether it runs the block of one it refused is its own choice.
pf_queue(t) ==
    /\ ~exited
    /\ pc[t] = "pf_queue"
    /\ \E r \in VmnetReturns, st \in VmnetReturns, runs \in BOOLEAN :
          /\ r = VMNET_SUCCESS => runs
          /\ pf' = [pf EXCEPT !.res = r]
          /\ pfcb' = IF runs THEN [pc |-> "queued", status |-> st] ELSE NoPfBlock
    /\ pc' = [pc EXCEPT ![t] = "pf_test"]
    /\ UNCHANGED <<handles, runtime, api1015, init, initcb, ret, exited, eventvars>>

\* The completion block: vmnet_status = status (line 277).
pf_block_status ==
    /\ ~exited
    /\ pfcb.pc = "queued"
    /\ pf' = [pf EXCEPT !.vmnet_status = pfcb.status]
    /\ pfcb' = [pfcb EXCEPT !.pc = "signal"]
    /\ UNCHANGED <<handles, pc, runtime, api1015, init, initcb, ret, exited, eventvars>>

\* The completion block: dispatch_semaphore_signal (line 278).
pf_block_signal ==
    /\ ~exited
    /\ pfcb.pc = "signal"
    /\ pf' = [pf EXCEPT !.rule_added = @ + 1]
    /\ pfcb' = [pfcb EXCEPT !.pc = "done"]
    /\ UNCHANGED <<handles, pc, runtime, api1015, init, initcb, ret, exited, eventvars>>

\* What the call gives back, with what the host did, for the record.
pf_value(v) ==
    [op |-> "pf", kind |-> "value", value |-> Val_int(v), res |-> pf.res,
     waited |-> pf.waited, blockpc |-> pfcb.pc, blockstatus |-> pfcb.status]

\* The test of line 282: a command the host refused is given back at once.
\* The block of a call that has returned has only its own copies to write.
pf_test(t) ==
    /\ ~exited
    /\ pc[t] = "pf_test"
    /\ IF pf.res # VMNET_SUCCESS
         THEN /\ ret' = pf_value(pf.res)
              /\ pc' = [pc EXCEPT ![t] = "ocaml"]
              /\ pf' = NoPf
              /\ pfcb' = NoPfBlock
         ELSE /\ pc' = [pc EXCEPT ![t] = "pf_wait"]
              /\ UNCHANGED <<ret, pf, pfcb>>
    /\ UNCHANGED <<handles, runtime, api1015, init, initcb, exited, eventvars>>

\* dispatch_semaphore_wait(rule_added, DISPATCH_TIME_FOREVER) (line 288).
pf_wait(t) ==
    /\ ~exited
    /\ pc[t] = "pf_wait"
    /\ pf.rule_added > 0
    /\ pf' = [pf EXCEPT !.rule_added = @ - 1, !.waited = TRUE]
    /\ pc' = [pc EXCEPT ![t] = "pf_return"]
    /\ UNCHANGED <<handles, runtime, api1015, init, initcb, pfcb, ret, exited, eventvars>>

\* Mutant of pf_return: the status of the queueing call is given back where
\* the code gives back the status the block stored.
pf_return_res(t) ==
    /\ ~exited
    /\ pc[t] = "pf_return"
    /\ ret' = pf_value(pf.res)
    /\ pf' = NoPf
    /\ pfcb' = NoPfBlock
    /\ pc' = [pc EXCEPT ![t] = "ocaml"]
    /\ UNCHANGED <<handles, runtime, api1015, init, initcb, exited, eventvars>>

\* CAMLreturn(Val_int(vmnet_status)) (line 290); the locals end here.
pf_return(t) ==
    /\ ~exited
    /\ pc[t] = "pf_return"
    /\ ret' = pf_value(pf.vmnet_status)
    /\ pf' = NoPf
    /\ pfcb' = NoPfBlock
    /\ pc' = [pc EXCEPT ![t] = "ocaml"]
    /\ UNCHANGED <<handles, runtime, api1015, init, initcb, exited, eventvars>>

caml_vmnet_interface_add_port_forwarding_rule(t) ==
    \/ pf_call_unsupported(t)
    \/ pf_call(t)
    \/ pf_queue(t)
    \/ pf_test(t)
    \/ pf_wait(t)
    \/ pf_return(t)

pf_block ==
    \/ pf_block_status
    \/ pf_block_signal

(***************************************************************************)
(* caml_vmnet_read and caml_vmnet_write (lines 211-255).  The bigarray is  *)
(* an array of size bytes; an address in it is its offset from             *)
(* Caml_ba_data_val.  v_ba_off and v_ba_len are OCaml ints of any value.   *)
(***************************************************************************)
BufSizes == 1 .. MaxBuf
Offsets == -1 .. MaxBuf
Lengths == 0 .. MaxBuf + 1

\* The iovec and the packet descriptor of lines 217-225.
packet_desc(v_ba_off, v_ba_len) ==
    [iov_base |-> Int_val(v_ba_off), iov_len |-> Int_val(v_ba_len),
     vm_pkt_size |-> Int_val(v_ba_len), vm_pkt_iovcnt |-> 1, vm_flags |-> 0,
     pktcnt |-> 1]

\* What one call of vmnet_read or vmnet_write may answer for a descriptor:
\* its status, the packet count and the packet size it writes back.
HostAnswers(v) ==
    [res : VmnetReturns, pktcnt : 0 .. 1, vm_pkt_size : 0 .. v.vm_pkt_size]

\* The answers the host has ready for the calls made on one descriptor: any
\* answer to the first call, and to a second one any status with the whole
\* packet.
HostScripts(v) ==
    { <<a, b>> : a \in HostAnswers(v),
                 b \in [res : VmnetReturns, pktcnt : {1},
                        vm_pkt_size : {v.vm_pkt_size}] }

\* Mutant of vmnet_read_value: the status is given back as it is.
vmnet_read_value_raw(a) ==
    IF a.res # VMNET_SUCCESS THEN Val_int(a.res)
    ELSE IF a.pktcnt <= 0 THEN Val_int(0)
    ELSE Val_int(a.vm_pkt_size)

\* Lines 227-232 on the answer of vmnet_read.  The cast to int32_t keeps the
\* value of every vmnet_return_t.
vmnet_read_value(a) ==
    IF a.res # VMNET_SUCCESS THEN Val_int((-1) * a.res)
    ELSE IF a.pktcnt <= 0 THEN Val_int(0)
    ELSE Val_int(a.vm_pkt_size)

\* Lines 251-254 on the answer of vmnet_write.
vmnet_write_value(a) ==
    IF a.res = VMNET_SUCCESS THEN Val_int(a.vm_pkt_size)
    ELSE Val_int((-1) * a.res)

\* Mutant of vmnet_write_calls: a write that failed is tried once more.
vmnet_write_calls_retry(script) ==
    IF script[1].res = VMNET_SUCCESS THEN <<script[1]>> ELSE <<script[1], script[2]>>

\* The calls of vmnet_write one caml_vmnet_write makes (line 250), each with
\* the answer it got.
vmnet_write_calls(script) == <<script[1]>>

vmnet_read_calls(script) == <<script[1]>>

Last(seq) == seq[Len(seq)]

\* Mutant of caml_vmnet_read: a read takes the pending events of the handle.
caml_vmnet_read_consumes(t) ==
    /\ InOCaml(t)
    /\ \E h \in DOMAIN handles, size \in BufSizes,
          v_ba_off \in {Val_int(o) : o \in Offsets},
          v_ba_len \in {Val_int(l) : l \in Lengths} :
          LET v == packet_desc(v_ba_off, v_ba_len)
          IN  \E script \in HostScripts(v) :
                 LET calls == vmnet_read_calls(script)
                 IN  /\ ret' = [op |-> "read", kind |-> "value", iref |-> handles[h].iref,
                                size |-> size, off |-> Int_val(v_ba_off),
                                len |-> Int_val(v_ba_len), desc |-> v,
                                script |-> script, calls |-> calls,
                                value |-> vmnet_read_value(Last(calls))]
                     /\ handles' = [handles EXCEPT ![h].seen_event = handles[h].last_event]
    /\ UNCHANGED <<pc, runtime, api1015, init, initcb, pfvars, exited, eventvars>>

\* caml_vmnet_read, from entry to return.
caml_vmnet_read(t) ==
    /\ InOCaml(t)
    /\ \E h \in DOMAIN handles, size \in BufSizes,
          v_ba_off \in {Val_int(o) : o \in Offsets},
          v_ba_len \in {Val_int(l) : l \in Lengths} :
          LET v == packet_desc(v_ba_off, v_ba_len)
          IN  \E script \in HostScripts(v) :
                 LET calls == vmnet_read_calls(script)
                 IN  ret' = [op |-> "read", kind |-> "value", iref |-> handles[h].iref,
                             size |-> size, off |-> Int_val(v_ba_off),
                             len |-> Int_val(v_ba_len), desc |-> v,
                             script |-> script, calls |-> calls,
                             value |-> vmnet_read_value(Last(calls))]
    /\ UNCHANGED <<handles, pc, runtime, api1015, init, initcb, pfvars, exited, eventvars>>

\* caml_vmnet_write, from entry to return.
caml_vmnet_write(t) ==
    /\ InOCaml(t)
    /\ \E h \in DOMAIN handles, size \in BufSizes,
          v_ba_off \in {Val_int(o) : o \in Offsets},
          v_ba_len \in {Val_int(l) : l \in Lengths} :
          LET v == packet_desc(v_ba_off, v_ba_len)
          IN  \E script \in HostScripts(v) :
                 LET calls == vmnet_write_calls(script)
                 IN  ret' = [op |-> "write", kind |-> "value", iref |-> handles[h].iref,
                             size |-> size, off |-> Int_val(v_ba_off),
                             len |-> Int_val(v_ba_len), desc |-> v,
                             script |-> script, calls |-> calls,
                             value |-> vmnet_write_value(Last(calls))]
    /\ UNCHANGED <<handles, pc, runtime, api1015, init, initcb, pfvars, exited, eventvars>>

(***************************************************************************)
(* caml_shared_interface_list (lines 147-175).  An xpc array and an OCaml  *)
(* array are functions on 0 .. n-1.                                        *)
(***************************************************************************)
IfNames == {"en0", "en1"}

\* The lists vmnet_copy_shared_interface_list may give, and no list.
HostLists ==
    { [null |-> FALSE, names |-> l] :
        l \in UNION { [0 .. n - 1 -> IfNames] : n \in 0 .. MaxIfaces } }

NullList == [null |-> TRUE, names |-> <<>>]

xpc_array_get_count(l) == Cardinality(DOMAIN l.names)
xpc_array_get_string(l, i) == l.names[i]

\* A field of an OCaml block: an immediate value, or a pointer to a string.
Immediate(v) == [tag |-> "int", int |-> v, str |-> ""]
caml_copy_string(p) == [tag |-> "string", int |-> 0, str |-> p]

\* Atom(0), the empty array.
Atom0 == [i \in {} |-> Immediate(Val_unit)]

\* caml_alloc(len, 0): a block of len fields, each Val_unit; Atom(0) for 0.
caml_alloc(len) == [i \in 0 .. len - 1 |-> Immediate(Val_unit)]

\* The loop of lines 159-162: every string is stored in field 0.
RECURSIVE store_names(_, _, _, _)
store_names(ret_array, l, i, len) ==
    IF i < len
      THEN store_names([ret_array EXCEPT ![0] = caml_copy_string(xpc_array_get_string(l, i))],
                       l, i + 1, len)
      ELSE ret_array

\* Lines 154-169.
shared_interface_list(l) ==
    IF ~l.null
      THEN LET len == xpc_array_get_count(l)
           IN  store_names(caml_alloc(len), l, 0, len)
      ELSE Atom0

caml_shared_interface_list_unsupported(t) ==
    /\ InOCaml(t)
    /\ ~api1015
    /\ ret' = [f \in {"op", "kind", "exn", "arg"} |->
                 IF f = "op" THEN "list" ELSE caml_raise_api_not_supported[f]]
    /\ UNCHANGED <<handles, pc, runtime, api1015, init, initcb, pfvars, exited, eventvars>>

caml_shared_interface_list(t) ==
    /\ InOCaml(t)
    /\ api1015
    /\ \E l \in HostLists \cup {NullList} :
          ret' = [op |-> "list", kind |-> "value", list |-> l,
                  value |-> shared_interface_list(l)]
    /\ UNCHANGED <<handles, pc, runtime, api1015, init, initcb, pfvars, exited, eventvars>>

(***************************************************************************)
(* The event machinery of one handle, with a single waiter (thread 1).     *)
(***************************************************************************)
Waiter == 1

Init ==
    /\ handles \in {<<alloc_vmnet_state(i)>> : i \in IfaceRefs}
    /\ pc = [t \in Threads |-> "ocaml"]
    /\ runtime = 0
    /\ installs = 0
    /\ cbpc = [q \in Queues |-> "idle"]
    /\ incSinceSeen = 0
    /\ consumed = [t \in Threads |-> 0]
    /\ fresh = FALSE
    /\ spurious = [t \in Threads |-> FALSE]
    /\ api1015 = TRUE
    /\ init = NoInit
    /\ initcb = NoBlock
    /\ pf = NoPf
    /\ pfcb = NoPfBlock
    /\ ret = NoRet
    /\ exited = FALSE

Next ==
    \/ \E t \in Threads : thread_yield(t)
    \/ \E t \in Threads : thread_resume(t)
    \/ \E t \in Threads : caml_set_event_handler(t)
    \/ \E q \in Queues : event_callback(q)
    \/ caml_wait_for_event(Waiter)

Spec == Init /\ [][Next]_vars

(***************************************************************************)
(* The stubs that are called and return under the runtime lock, from the   *)
(* start of the program: no handle exists yet.                             *)
(***************************************************************************)
InitApi ==
    /\ handles = <<>>
    /\ pc = [t \in Threads |-> "ocaml"]
    /\ runtime = 0
    /\ installs = 0
    /\ cbpc = [q \in Queues |-> "idle"]
    /\ incSinceSeen = 0
    /\ consumed = [t \in Threads |-> 0]
    /\ fresh = FALSE
    /\ spurious = [t \in Threads |-> FALSE]
    /\ api1015 \in BOOLEAN
    /\ init = NoInit
    /\ initcb = NoBlock
    /\ pf = NoPf
    /\ pfcb = NoPfBlock
    /\ ret = NoRet
    /\ exited = FALSE

NextApi ==
    \/ \E t \in Threads : thread_yield(t)
    \/ \E t \in Threads : thread_resume(t)
    \/ \E t \in Threads : ocaml_take_result(t)
    \/ \E t \in Threads : caml_init_vmnet(t)
    \/ init_block
    \/ \E t \in Threads : caml_vmnet_interface_add_port_forwarding_rule(t)
    \/ pf_block
    \/ \E t \in Threads : caml_vmnet_read(t)
    \/ \E t \in Threads : caml_vmnet_write(t)
    \/ \E t \in Threads : caml_shared_interface_list_unsupported(t)
    \/ \E t \in Threads : caml_shared_interface_list(t)

SpecApi == InitApi /\ [][NextApi]_vars

(***************************************************************************)
(* Fair scheduling: a thread in caml_wait_for_event gets the mutex and the *)
(* runtime lock it competes for, a callback block that has started runs to *)
(* its end, and the holder of the runtime lock yields.  The host is not    *)
(* obliged to deliver events, and a wait is not obliged to be called.      *)
(***************************************************************************)
wait_progress(t) ==
    \/ wait_lock(t)
    \/ wait_check(t)
    \/ wait_reacquire(t)
    \/ wait_set(t)
    \/ wait_unlock(t)
    \/ wait_return(t)

event_callback_progress(q) ==
    \/ event_callback_lock(q)
    \/ event_callback_inc(q)
    \/ event_callback_broadcast(q)
    \/ event_callback_unlock(q)

Fairness ==
    /\ \A t \in Threads : SF_vars(wait_progress(t))
    /\ \A q \in Queues : SF_vars(event_callback_progress(q))
    /\ \A t \in Threads : WF_vars(thread_yield(t))

FairSpec == Spec /\ Fairness

(***************************************************************************)
(* The event machinery with every thread of the program a caller of        *)
(* caml_wait_for_event on the handle.                                      *)
(***************************************************************************)
NextMulti ==
    \/ \E t \in Threads : thread_yield(t)
    \/ \E t \in Threads : thread_resume(t)
    \/ \E t \in Threads : caml_set_event_handler(t)
    \/ \E q \in Queues : event_callback(q)
    \/ \E t \in Threads : caml_wait_for_event(t)

SpecMulti == Init /\ [][NextMulti]_vars

(***************************************************************************)
(* The event machinery together with caml_vmnet_read, caml_vmnet_write and *)
(* caml_vmnet_interface_add_port_forwarding_rule on the same handle.  The  *)
(* program makes these calls before its first wait has returned, with or   *)
(* without a handler installed and with any number of events pending,      *)
(* while no callback block is running; the event machinery moves on once   *)
(* the call is over and OCaml has its result.                              *)
(***************************************************************************)
PfPcs == {"pf_queue", "pf_test", "pf_wait", "pf_return"}

CallPoint ==
    /\ pc[Waiter] = "ocaml"
    /\ consumed[Waiter] = 0
    /\ ~spurious[Waiter]
    /\ \A q \in Queues : cbpc[q] = "idle"

NoCall == ret = NoRet /\ \A t \in Threads : pc[t] \notin PfPcs

NextFrame ==
    \/ \E t \in Threads : NoCall /\ thread_yield(t)
    \/ \E t \in Threads : NoCall /\ thread_resume(t)
    \/ \E t \in Threads : NoCall /\ caml_set_event_handler(t)
    \/ \E q \in Queues : NoCall /\ event_callback(q)
    \/ NoCall /\ caml_wait_for_event(Waiter)
    \/ \E t \in Threads : ocaml_take_result(t)
    \/ \E t \in Threads : CallPoint /\ caml_vmnet_read(t)
    \/ \E t \in Threads : CallPoint /\ caml_vmnet_write(t)
    \/ \E t \in Threads : CallPoint /\ pf_call(t)
    \/ \E t \in Threads : pf_queue(t)
    \/ \E t \in Threads : pf_test(t)
    \/ \E t \in Threads : pf_wait(t)
    \/ \E t \in Threads : pf_return(t)
    \/ pf_block

SpecFrame == Init /\ [][NextFrame]_vars

(***************************************************************************)
(* C1.  As claimed: every return of caml_wait_for_event is preceded by a   *)
(* run of the callback block that happened after the previous return of    *)
(* caml_wait_for_event (after the creation of the handle for the first).   *)
(* fresh is generous to the claim: any step of a callback block since the  *)
(* previous return sets it.                                                *)
(***************************************************************************)
C1_ReturnAfterCallbackSinceReturn ==
    [][\A t \in Threads :
          (pc[t] = "w_acquire" /\ pc'[t] = "ocaml") => fresh]_vars

(***************************************************************************)
(* C1, amended.  Every return of caml_wait_for_event is preceded by an     *)
(* execution of last_event++ by the callback block that happened after the *)
(* previous assignment of seen_event (line 205 of the previous wait; after *)
(* the creation of the handle for the first): a wait never returns without *)
(* an event of its own, a spurious wakeup included.                        *)
(***************************************************************************)
C1_ReturnAfterCallbackSinceSeen ==
    [][\A t \in Threads :
          (pc[t] = "w_acquire" /\ pc'[t] = "ocaml") => consumed[t] >= 1]_vars

\* A wait that had a spurious wakeup has returned.
C1_Witness ==
    /\ pc[Waiter] = "ocaml"
    /\ spurious[Waiter]
    /\ consumed[Waiter] >= 1

(***************************************************************************)
(* C2.  No lost wakeup: once the callback block has incremented last_event *)
(* after the previous wait took its events, a thread in                    *)
(* caml_wait_for_event eventually returns, with no further callback needed *)
(* (FairSpec does not oblige the host to deliver one).                     *)
(***************************************************************************)
C2_NoLostWakeup ==
    (pc[Waiter] # "ocaml" /\ incSinceSeen >= 1) ~> (pc[Waiter] = "ocaml")

(***************************************************************************)
(* C3.  Event coalescing: when the waiter has assigned seen_event and is   *)
(* about to release the mutex the counters are equal and every increment   *)
(* so far is taken by this one return; and as long as no callback block    *)
(* has incremented last_event since, the counters stay equal, so that the  *)
(* following wait finds the loop condition true and blocks.                *)
(***************************************************************************)
C3_Coalescing ==
    /\ \A t \in Threads :
          pc[t] = "w_unlock" =>
              /\ vms.seen_event = vms.last_event
              /\ incSinceSeen = 0
    /\ incSinceSeen = 0 => vms.seen_event = vms.last_event

\* One return takes two or more events.
C3_Witness ==
    /\ pc[Waiter] = "w_unlock"
    /\ consumed[Waiter] >= 2
    /\ consumed[Waiter] < 2 ^ IntBits

(***************************************************************************)
(* C4.  caml_init_vmnet blocks until the creation block has fired: when    *)
(* the thread is past dispatch_semaphore_wait, where it reads iface_status,*)
(* mac, mtu and max_packet_size, the block has made all its writes and has *)
(* signalled; the block signals the semaphore exactly once on the failure  *)
(* path and on the success path; and once the block has signalled, the     *)
(* wait of caml_init_vmnet finds the semaphore signalled and the call goes *)
(* on to its return or raise.                                              *)
(***************************************************************************)
C4_InitWaitsForBlock ==
    /\ \A t \in Threads : pc[t] = "i_check" => initcb.pc = "done"
    /\ ret.op = "init" => ret.blockpc = "done"
    /\ init.signals <= 1
    /\ initcb.pc = "done" =>
          /\ init.signals = 1
          /\ initcb.path \in {"fail", "ok"}
    /\ \A t \in Threads :
          (pc[t] = "i_wait" /\ initcb.pc = "done") => init.iface_created >= 1

\* The thread is past the wait after the success path of the block.
C4_Witness ==
    \E t \in Threads : pc[t] = "i_check" /\ initcb.path = "ok"

C8_PortForwardingStatus ==
    (ret.op = "pf" /\ ret.kind = "value") =>
        /\ ret.res # VMNET_SUCCESS =>
              /\ Int_val(ret.value) = ret.res
              /\ ~ret.waited
        /\ ret.res = VMNET_SUCCESS =>
              /\ ret.waited
              /\ ret.blockpc = "done"
              /\ Int_val(ret.value) = ret.blockstatus
        /\ Int_val(ret.value) = VMNET_SUCCESS <=>
              /\ ret.res = VMNET_SUCCESS
              /\ ret.blockpc = "done"
              /\ ret.blockstatus = VMNET_SUCCESS

\* The command was queued and its completion block reported a failure.
C8_Witness ==
    /\ ret.op = "pf"
    /\ ret.kind = "value"
    /\ ret.res = VMNET_SUCCESS
    /\ ret.waited
    /\ Int_val(ret.value) = VMNET_FAILURE

(***************************************************************************)
(* C6.  caml_vmnet_read forwards the answer of its one call of vmnet_read: *)
(* the negated status, strictly negative, when the status is not           *)
(* VMNET_SUCCESS; 0 when the call succeeded with a packet count <= 0; the  *)
(* packet size the host wrote back otherwise.  The result is negative if   *)
(* and only if the host call failed.                                       *)
(***************************************************************************)
C6_ReadForwardsOutcome ==
    ret.op = "read" =>
        LET a == ret.script[1]
            n == Int_val(ret.value)
        IN  /\ a.res # VMNET_SUCCESS => (n = 0 - a.res /\ n < 0)
            /\ (a.res = VMNET_SUCCESS /\ a.pktcnt <= 0) => n = 0
            /\ (a.res = VMNET_SUCCESS /\ a.pktcnt > 0) => n = a.vm_pkt_size
            /\ n < 0 <=> a.res # VMNET_SUCCESS

\* A read that failed, and gave back the negated status.
C6_Witness ==
    /\ ret.op = "read"
    /\ ret.script[1].res = VMNET_FAILURE
    /\ Int_val(ret.value) = 0 - VMNET_FAILURE

(***************************************************************************)
(* C7.  caml_vmnet_write forwards the answer of vmnet_write: the packet    *)
(* size of the descriptor when the status is VMNET_SUCCESS, the negated    *)
(* status otherwise; the result is negative if and only if the host call   *)
(* failed; and the call makes exactly one call of vmnet_write, whose       *)
(* answer is the first the host gives: a failed write is not retried.      *)
(***************************************************************************)
C7_WriteForwardsOutcome ==
    ret.op = "write" =>
        LET a == ret.script[1]
            n == Int_val(ret.value)
        IN  /\ Len(ret.calls) = 1
            /\ a.res = VMNET_SUCCESS => n = a.vm_pkt_size
            /\ a.res # VMNET_SUCCESS => n = 0 - a.res
            /\ n < 0 <=> a.res # VMNET_SUCCESS

\* A write that failed although a second call would have succeeded.
C7_Witness ==
    /\ ret.op = "write"
    /\ ret.script[1].res = VMNET_FAILURE
    /\ ret.script[2].res = VMNET_SUCCESS
    /\ Int_val(ret.value) < 0

(***************************************************************************)
(* C9.  caml_shared_interface_list gives the empty array when the host     *)
(* gives no list, and otherwise an array as long as the host's list whose  *)
(* i-th element is the i-th interface name of the list.                    *)
(***************************************************************************)
C9_ListEnumerates ==
    (ret.op = "list" /\ ret.kind = "value") =>
        IF ret.list.null
          THEN ret.value = Atom0
          ELSE /\ DOMAIN ret.value = DOMAIN ret.list.names
               /\ \A i \in DOMAIN ret.list.names :
                     /\ ret.value[i].tag = "string"
                     /\ ret.value[i].str = ret.list.names[i]

(***************************************************************************)
(* C10.  For every offset and length given to caml_vmnet_read or           *)
(* caml_vmnet_write, the iovec handed to the host lies inside the buffer:  *)
(* 0 <= offset and offset + len <= buffer size.                            *)
(***************************************************************************)
C10_IovecInsideBuffer ==
    ret.op \in {"read", "write"} =>
        /\ ret.desc.iov_base = ret.off
        /\ ret.desc.iov_len = ret.len
        /\ ret.desc.vm_pkt_size = ret.len
        /\ ret.desc.vm_pkt_iovcnt = 1
        /\ 0 <= ret.desc.iov_base
        /\ ret.desc.iov_base + ret.desc.iov_len <= ret.size

(***************************************************************************)
(* C11.  Mutual exclusion on the counters.  A thread is between its        *)
(* pthread_mutex_lock (or the return of pthread_cond_wait) and its         *)
(* pthread_mutex_unlock, where it reads last_event and reads and writes    *)
(* seen_event, exactly when it owns vmm, and a callback block is between   *)
(* its lock and its unlock, where it writes last_event, exactly when it    *)
(* owns vmm: no two of the waiters and blocks are in their critical        *)
(* sections together, and neither leaves with the mutex held.  Every step  *)
(* that changes last_event or seen_event is made by the owner of vmm.      *)
(***************************************************************************)
InWaitSection(t) == pc[t] \in {"w_check", "w_set", "w_unlock"}

InBlockSection(q) == cbpc[q] \in {"inc", "broadcast", "unlock"}

C11_MutualExclusion ==
    /\ [](/\ \A t \in Threads : InWaitSection(t) <=> vms.vmm = ThreadOwner(t)
          /\ \A q \in Queues : InBlockSection(q) <=> vms.vmm = BlockOwner(q)
          /\ Cardinality({t \in Threads : InWaitSection(t)})
               + Cardinality({q \in Queues : InBlockSection(q)}) <= 1)
    /\ [][/\ handles'[1].last_event # vms.last_event =>
                \E q \in Queues : vms.vmm = BlockOwner(q) /\ handles'[1].vmm = BlockOwner(q)
          /\ handles'[1].seen_event # vms.seen_event =>
                \E t \in Threads : vms.vmm = ThreadOwner(t) /\ handles'[1].vmm = ThreadOwner(t)]_vars

\* A block holds the mutex for last_event++ while one waiter, woken, and
\* another, just called, both wait for it.
C11_Witness ==
    \E q \in Queues, t, u \in Threads :
        /\ cbpc[q] = "inc"
        /\ pc[t] = "w_reacquire"
        /\ pc[u] = "w_lock"

(***************************************************************************)
(* C12.  The waiter proceeds for every number k >= 1 of executions of      *)
(* last_event++ since seen_event was last assigned, a k that wraps the int *)
(* included: whenever k >= 1 the counters differ, so that the loop         *)
(* condition of line 203 is false and the wait returns with no further     *)
(* callback.                                                               *)
(***************************************************************************)
C12_AdvancedForEveryK ==
    incSinceSeen >= 1 => vms.seen_event # vms.last_event

(***************************************************************************)
(* C13.  The tuple caml_init_vmnet returns holds what the block took from  *)
(* the parameters the host passed: the bytes of the MAC address string,    *)
(* the MTU and the maximum packet size, for every outcome of the block.    *)
(***************************************************************************)
C13_TupleFromParams ==
    (ret.op = "init" /\ ret.kind = "tuple") =>
        /\ ~ret.blockparam.null
        /\ ret.value[2] = sscanf_mac(ret.blockparam.mac, 1, NoInit.mac).lmac
        /\ Int_val(ret.value[3]) = ret.blockparam.mtu
        /\ Int_val(ret.value[4]) = ret.blockparam.max_packet_size

(***************************************************************************)
(* C14.  The status vmnet_raw_return carries out of caml_init_vmnet is     *)
(* never VMNET_SUCCESS, whatever interface reference the host returned and *)
(* whatever status the block was passed.                                   *)
(***************************************************************************)
C14_RaisedStatusIsFailure ==
    (ret.op = "init" /\ ret.kind = "exn") => Int_val(ret.arg) # VMNET_SUCCESS

(***************************************************************************)
(* C15.  Several threads in caml_wait_for_event on the handle.  What holds *)
(* of every return: the waiter passed the loop on an execution of          *)
(* last_event++ that no earlier return had taken, and took every pending   *)
(* one with it, so that the returns never outnumber the executions of the  *)
(* block and a waiter that re-tests after another has returned blocks      *)
(* again.                                                                  *)
(***************************************************************************)
C15_ReturnsTakeEvents ==
    /\ \A t \in Threads : pc[t] = "w_set" => incSinceSeen >= 1
    /\ \A t \in Threads : pc[t] \in {"w_unlock", "w_acquire"} => consumed[t] >= 1
    /\ \A t \in Threads :
          pc[t] = "w_unlock" => (incSinceSeen = 0 /\ vms.seen_event = vms.last_event)

(***************************************************************************)
(* C15.  As claimed: a batch of callbacks releases exactly one of the      *)
(* waiters.  Not more than one, as above; and one: the first waiter to     *)
(* hold the mutex at the loop test after a batch of one or more executions *)
(* of last_event++ finds the counters different and goes on to assign      *)
(* seen_event.                                                             *)
(***************************************************************************)
C15_BatchReleasesOne ==
    /\ C15_ReturnsTakeEvents
    /\ \A t \in Threads :
          (pc[t] = "w_check" /\ incSinceSeen >= 1) => vms.seen_event # vms.last_event

(***************************************************************************)
(* C16.  Lock order of the wait and freedom from deadlock.  A thread       *)
(* inside caml_wait_for_event, from its caml_release_runtime_system to its *)
(* caml_acquire_runtime_system, does not hold the runtime lock; it does    *)
(* not own vmm when it asks for the runtime lock again; no thread owns     *)
(* both.  A block that has started can always complete: it can step, or    *)
(* the owner of vmm it waits for can step, whoever holds the runtime lock. *)
(* No state has every thread blocked while an execution of last_event++ is *)
(* pending.                                                                *)
(***************************************************************************)
InWait(t) ==
    pc[t] \in {"w_lock", "w_check", "w_wait", "w_reacquire", "w_set", "w_unlock",
               "w_acquire"}

\* Thread t cannot take a step: it waits for a broadcast, for the mutex or
\* for the runtime lock.
Blocked(t) ==
    \/ pc[t] = "w_wait"
    \/ pc[t] \in {"w_lock", "w_reacquire"} /\ vms.vmm # NoOwner
    \/ pc[t] \in {"w_acquire", "ocaml"} /\ runtime \notin {0, t}

C16_LockOrder ==
    /\ \A t \in Threads : InWait(t) => runtime # t
    /\ \A t \in Threads : pc[t] \in {"w_lock", "w_acquire"} => vms.vmm # ThreadOwner(t)
    /\ \A t \in Threads : runtime = t => vms.vmm # ThreadOwner(t)
    /\ \A q \in Queues :
          cbpc[q] # "idle" =>
              \/ ENABLED event_callback_progress(q)
              \/ \E t \in Threads : vms.vmm = ThreadOwner(t) /\ ENABLED wait_progress(t)
              \/ \E r \in Queues \ {q} :
                    vms.vmm = BlockOwner(r) /\ ENABLED event_callback_progress(r)
    /\ incSinceSeen >= 1 => \E t \in Threads : ~Blocked(t)

\* A block increments last_event while the waiter is blocked on the
\* condition variable and another thread holds the runtime lock.
C16_Witness ==
    \E q \in Queues, u \in Threads \ {Waiter} :
        /\ cbpc[q] = "broadcast"
        /\ pc[Waiter] = "w_wait"
        /\ runtime = u

(***************************************************************************)
(* C17.  The counters.  Both are 0 on a fresh handle.  last_event changes  *)
(* only in the block's last_event++, by +1 (upwards, short of INT_MAX);    *)
(* seen_event changes only in the assignment of caml_wait_for_event, to    *)
(* the value last_event has then.  While the pending increments have not   *)
(* carried last_event past INT_MAX, seen_event <= last_event and           *)
(* last_event - seen_event is the number of executions of last_event++ no  *)
(* wait has taken yet.                                                     *)
(***************************************************************************)
NotWrapped == vms.seen_event + incSinceSeen <= IntMax

C17_CounterInvariant ==
    /\ vms.seen_event = 0 /\ vms.last_event = 0
    /\ [](NotWrapped =>
            /\ vms.seen_event <= vms.last_event
            /\ vms.last_event - vms.seen_event = incSinceSeen)
    /\ [][/\ handles'[1].last_event # vms.last_event =>
                /\ \E q \in Queues : cbpc[q] = "inc" /\ cbpc'[q] = "broadcast"
                /\ vms.last_event < IntMax => handles'[1].last_event = vms.last_event + 1
                /\ handles'[1].seen_event = vms.seen_event
          /\ handles'[1].seen_event # vms.seen_event =>
                /\ \E t \in Threads : pc[t] = "w_set" /\ pc'[t] = "w_unlock"
                /\ handles'[1].seen_event = vms.last_event
                /\ handles'[1].last_event = vms.last_event]_vars

\* Two executions of the block are pending and the counter has not wrapped.
C17_Witness ==
    /\ incSinceSeen = 2
    /\ NotWrapped
    /\ vms.last_event - vms.seen_event = 2

(***************************************************************************)
(* C18.  Frame of the event state.  A step of caml_vmnet_read,             *)
(* caml_vmnet_write or caml_vmnet_interface_add_port_forwarding_rule, and  *)
(* caml_set_event_handler, leave last_event and seen_event as they are,    *)
(* pending events included; a step of the callback block leaves            *)
(* seen_event, a step of caml_wait_for_event leaves last_event; no step    *)
(* changes the interface reference of the handle.  While                   *)
(* caml_set_event_handler has not been called the counters are equal and   *)
(* no wait gets past its loop, so that none returns.                       *)
(***************************************************************************)
C18_EventFrame ==
    /\ [](installs = 0 =>
            /\ vms.last_event = vms.seen_event
            /\ \A t \in Threads : pc[t] \notin {"w_set", "w_unlock", "w_acquire"}
            /\ \A t \in Threads : consumed[t] = 0)
    /\ [][/\ (ret' # ret \/ pfvars' # pfvars
                \/ \E t \in Threads : pc'[t] # pc[t] /\ (pc[t] \in PfPcs \/ pc'[t] \in PfPcs))
             => /\ handles'[1].last_event = vms.last_event
                /\ handles'[1].seen_event = vms.seen_event
          /\ installs' # installs
             => /\ handles'[1].last_event = vms.last_event
                /\ handles'[1].seen_event = vms.seen_event
          /\ cbpc' # cbpc => handles'[1].seen_event = vms.seen_event
          /\ (\E t \in Threads : pc'[t] # pc[t] /\ (InWait(t) \/ pc'[t] = "w_lock"))
             => handles'[1].last_event = vms.last_event
          /\ handles'[1].iref = vms.iref
          /\ Len(handles') = Len(handles)]_vars

\* A read has returned with events pending on the handle, and they are
\* pending still.
C18_Witness ==
    /\ ret.op = "read"
    /\ incSinceSeen >= 2
    /\ vms.last_event # vms.seen_event

====
